---- MODULE Spec2Model ----
(***************************************************************************)
(* Boost operation engine (lib/boostService.ts), its precision timer       *)
(* (lib/utils/timing.ts) and the state store that observes it              *)
(* (hooks/useBoostOperation.ts).                                           *)
(*                                                                         *)
(* JavaScript runs every handler to completion, so one action of the model *)
(* is one macrotask: a user intent, a timeout expiring, or the             *)
(* continuation of executeRequest after the awaited proxy call settles.    *)
(* Time is counted in one abstract unit of Date.now().                     *)
(***************************************************************************)
EXTENDS Integers, Sequences, FiniteSets, Bags, TLC

\* ---------------------------------------------------------------- bounds
MaxCount == 3
MaxOps == 4
MaxRuns == 2
MaxTime == 4

\* The engine's failure threshold.
MAX_CONSECUTIVE_FAILURES == 3

\* JavaScript's null and undefined, kept apart from every number in use.
null == 0 - 1
undefined == 0 - 2

Max(a, b) == IF a >= b THEN a ELSE b

\* config.count and config.interval a caller may pass.
Counts == 1..MaxCount
Intervals == {1, 2}

\* Articles a caller may pass: buildArticleUrl accepts the first only.
Articles == {"valid", "badId"}

\* What the awaited sendViewRequest can settle with: the proxy's JSON when
\* fetch resolved, the object thrown by sendViewRequest when fetch rejected.
Outcomes ==
  { [resolved |-> TRUE,  success |-> TRUE,  statusCode |-> 200,
     responseTime |-> 1, error |-> "undefined"],
    [resolved |-> TRUE,  success |-> FALSE, statusCode |-> 404,
     responseTime |-> 2, error |-> "HTTP 404: Not Found"],
    [resolved |-> FALSE, success |-> FALSE, statusCode |-> 0,
     responseTime |-> 0, error |-> "Network error"] }

VARIABLES
  now,                \* Date.now()
  engines,            \* closure state of every startBoost call so far
  timers,             \* per engine, the scheduleAccurate closures it created
  inFlight,           \* per engine, bag of requestIndex of the awaited proxy calls
  events,             \* per engine, history: timers scheduled, proxy calls issued and
                      \* settled, callbacks invoked, controller calls that took effect
  state,              \* the reducer's BoostOperation snapshot
  controllerRef,      \* useRef<BoostController | null>: an index of engines, or null
  pauseStartTimeRef,  \* useRef<number | null>
  ops,                \* number of user intents handled so far
  pausedWall,         \* history: time elapsed while the snapshot was paused, since START
  inFlightAtReset,    \* history: inFlight as reset() found it, until the next start()
  lastCallAt          \* history: per engine, Date.now() at its latest proxy call, or null

vars == <<now, engines, timers, inFlight, events, state, controllerRef,
          pauseStartTimeRef, ops, pausedWall, inFlightAtReset, lastCallAt>>

\* ------------------------------------------------------------ state store

initialState ==
  [ status  |-> "idle",
    article |-> "null",
    config  |-> [count |-> 200, interval |-> 300],
    metrics |-> [current |-> 0, success |-> 0, failed |-> 0,
                 consecutiveFailures |-> 0, responseTimes |-> <<>>,
                 averageResponseTime |-> 0],
    timing  |-> [startTime |-> null, endTime |-> null, duration |-> 0,
                 pausedDuration |-> 0],
    error   |-> <<>> ]

RECURSIVE SumSeq(_)
SumSeq(s) == IF s = <<>> THEN 0 ELSE Head(s) + SumSeq(Tail(s))

\* Mutant of MathRound: the quotient is truncated.
MathRound_Truncates(num, den) == num \div den

\* Math.round of a non-negative quotient: halves round up.
MathRound(num, den) == (2 * num + den) \div (2 * den)

calculateAverageResponseTime(responseTimes) ==
  IF Len(responseTimes) = 0 THEN 0
  ELSE MathRound(SumSeq(responseTimes), Len(responseTimes))

\* Mutant of ReducerSTART: the previous snapshot is spread instead of
\* initialState.
ReducerSTART_KeepsPrevious(s, action) ==
  [s EXCEPT
     !.status = "running",
     !.article = action.article,
     !.config = [count |-> action.count, interval |-> action.interval],
     !.timing.startTime = now]

\* case 'START' of boostReducer.
ReducerSTART(s, action) ==
  [initialState EXCEPT
     !.status = "running",
     !.article = action.article,
     !.config = [count |-> action.count, interval |-> action.interval],
     !.timing.startTime = now]

\* Mutant of ReducerPAUSE: the pause stamps endTime.
ReducerPAUSE_StampsEndTime(s) ==
  [s EXCEPT !.status = "paused", !.timing.endTime = now]

\* case 'PAUSE' of boostReducer.
ReducerPAUSE(s) == [s EXCEPT !.status = "paused"]

\* case 'RESUME' of boostReducer.
ReducerRESUME(s) == [s EXCEPT !.status = "running"]

\* timing.duration is kept in thousandths of a second: the division by 1000
\* of the source is exact on that scale.
boostReducer(s, action) ==
  CASE action.type = "START" -> ReducerSTART(s, action)
    [] action.type = "PAUSE" -> ReducerPAUSE(s)
    [] action.type = "RESUME" -> ReducerRESUME(s)
    [] action.type = "RESET" -> initialState
    [] action.type = "UPDATE_PROGRESS" ->
         LET newResponseTimes == Append(s.metrics.responseTimes, action.responseTime)
             newSuccess == s.metrics.success + (IF action.success THEN 1 ELSE 0)
             newFailed == s.metrics.failed + (IF action.success THEN 0 ELSE 1)
         IN [s EXCEPT !.metrics =
               [current |-> action.current + 1,
                success |-> newSuccess,
                failed |-> newFailed,
                consecutiveFailures |-> action.consecutiveFailures,
                responseTimes |-> newResponseTimes,
                averageResponseTime |-> calculateAverageResponseTime(newResponseTimes)]]
    [] action.type = "COMPLETE" ->
         LET endTime == now
             duration == IF s.timing.startTime # null /\ s.timing.startTime # 0
                         THEN endTime - s.timing.startTime - s.timing.pausedDuration
                         ELSE 0
         IN [s EXCEPT !.status = "completed",
                      !.timing.endTime = endTime,
                      !.timing.duration = duration]
    [] action.type = "ERROR" ->
         [s EXCEPT !.status = "error", !.error = <<"error", action.message>>,
                   !.timing.endTime = now]
    [] action.type = "AUTO_STOP" ->
         [s EXCEPT !.status = "error",
                   !.error = <<"autoStop", action.reason, action.consecutiveFailures>>,
                   !.timing.endTime = now]
    [] OTHER -> s

\* ------------------------------------------------------------------ timer

\* Mutant of scheduleAccurate: the adjusted delay is not clamped at 0.
scheduleAccurate_Unclamped(intervalMs, expectedTime) ==
  LET drift == now - (expectedTime - intervalMs)
      adjustedDelay == intervalMs - drift
  IN [due |-> now + adjustedDelay, cancelled |-> FALSE, pending |-> TRUE]

\* scheduleAccurate: the closure of one call. pending says that the runtime
\* still holds the timeout (setTimeout called, neither expired-and-run nor
\* cleared); the timeout cannot run before due.
scheduleAccurate(intervalMs, expectedTime) ==
  LET drift == now - (expectedTime - intervalMs)
      adjustedDelay == Max(0, intervalMs - drift)
  IN [due |-> now + adjustedDelay, cancelled |-> FALSE, pending |-> TRUE]

\* Mutant of TimerCancel: cancel() does nothing.
TimerCancel_DoesNothing(ts, h) == ts

\* TimerHandle.cancel of the handle h of ts (currentTimer?.cancel()).
TimerCancel(ts, h) ==
  IF h = null THEN ts
  ELSE [ts EXCEPT ![h].cancelled = TRUE, ![h].pending = FALSE]

\* ----------------------------------------------------------------- engine
\* An engine r is [eng, timers, log]: the closure variables of one startBoost
\* call, the scheduleAccurate closures it created, and the history of what
\* it did (timers scheduled, proxy calls issued, callbacks invoked,
\* controller calls that took effect).

buildArticleUrlThrows(article) == article # "valid"

\* currentTimer = scheduleAccurate(executeRequest, interval, expectedTime)
Schedule(r, expectedTime) ==
  LET ts == Append(r.timers, scheduleAccurate(r.eng.interval, expectedTime))
  IN [eng |-> [r.eng EXCEPT !.expectedTime = expectedTime,
                            !.currentTimer = Len(ts)],
      timers |-> ts,
      log |-> Append(r.log, [type |-> "schedule"])]

\* currentTimer?.cancel(); currentTimer = null
DropTimer(r) ==
  [r EXCEPT !.eng.currentTimer = null,
            !.timers = TimerCancel(r.timers, r.eng.currentTimer)]

\* start()
EngineStart(r) ==
  Schedule(r, IF r.eng.currentIndex = 0
              THEN now + r.eng.interval ELSE r.eng.expectedTime)

\* startBoost after buildArticleUrl returned: the closure state, started.
startBoost(count, interval) ==
  EngineStart([eng |-> [count |-> count, interval |-> interval,
                        currentIndex |-> 0, isPaused |-> FALSE,
                        isCancelled |-> FALSE, currentTimer |-> null,
                        expectedTime |-> now + interval,
                        consecutiveFailures |-> 0],
               timers |-> <<>>,
               log |-> <<>>])

PauseAllowed(eng) == ~eng.isPaused /\ ~eng.isCancelled

\* Mutant of ResumeAllowed: the isPaused test is missing.
ResumeAllowed_IgnoresPaused(eng) == ~eng.isCancelled

ResumeAllowed(eng) == eng.isPaused /\ ~eng.isCancelled

ControllerPause(r) ==
  IF PauseAllowed(r.eng)
  THEN DropTimer([r EXCEPT !.eng.isPaused = TRUE,
                           !.log = Append(@, [type |-> "pause"])])
  ELSE r

\* Mutant of ControllerResume: the flag is cleared, start() is not called.
ControllerResume_NoRestart(r) ==
  IF ResumeAllowed(r.eng)
  THEN [r EXCEPT !.eng.isPaused = FALSE,
                 !.eng.expectedTime = now + r.eng.interval,
                 !.log = Append(@, [type |-> "resume", at |-> now])]
  ELSE r

ControllerResume(r) ==
  IF ResumeAllowed(r.eng)
  THEN EngineStart([r EXCEPT !.eng.isPaused = FALSE,
                             !.eng.expectedTime = now + r.eng.interval,
                             !.log = Append(@, [type |-> "resume", at |-> now])])
  ELSE r

\* Mutant of ControllerCancel: the timer is cleared, the flag is not set.
ControllerCancel_FlagNotSet(r) ==
  DropTimer([r EXCEPT !.eng.isPaused = FALSE,
                      !.log = Append(@, [type |-> "cancel"])])

ControllerCancel(r) ==
  DropTimer([r EXCEPT !.eng.isCancelled = TRUE, !.eng.isPaused = FALSE,
                      !.log = Append(@, [type |-> "cancel"])])

\* String.prototype.includes on the error texts of Outcomes; error?.includes
\* of an undefined error is falsy.
Signatures(error) ==
  CASE error = "WAF block detected" -> {"WAF"}
    [] error = "Request timeout" -> {"timeout"}
    [] error = "WAF gateway timeout" -> {"WAF", "timeout"}
    [] error = "firewall block" -> {"firewall"}
    [] error = "request timed out" -> {"timed out"}
    [] OTHER -> {}

Includes(error, signature) == signature \in Signatures(error)

\* Mutant of AutoStopReason: the timeout signature is tested before the
\* firewall signature.
AutoStopReason_TimeoutFirst(statusCode, error) ==
  IF statusCode = 404 THEN "article not found (404)"
  ELSE IF statusCode = 429 THEN "rate limited (429)"
  ELSE IF Includes(error, "timeout") \/ Includes(error, "timed out")
       THEN "request timed out"
  ELSE IF Includes(error, "WAF") \/ Includes(error, "firewall")
       THEN "blocked by firewall"
  ELSE "too many consecutive failures"

\* The reason passed to onAutoStop (Chinese texts of the source, glossed).
AutoStopReason(statusCode, error) ==
  IF statusCode = 404 THEN "article not found (404)"
  ELSE IF statusCode = 429 THEN "rate limited (429)"
  ELSE IF Includes(error, "WAF") \/ Includes(error, "firewall")
       THEN "blocked by firewall"
  ELSE IF Includes(error, "timeout") \/ Includes(error, "timed out")
       THEN "request timed out"
  ELSE "too many consecutive failures"

\* Mutant of ProgressPayload: the catch branch passes the thrown object's
\* statusCode on.
ProgressPayload_CatchKeepsStatus(eng, requestIndex, o) ==
  [type |-> "onProgress", current |-> requestIndex, total |-> eng.count,
   success |-> o.success, responseTime |-> o.responseTime,
   statusCode |-> o.statusCode,
   error |-> o.error, consecutiveFailures |-> eng.consecutiveFailures]

\* The payload executeRequest hands to onProgress for the outcome o of the
\* call of requestIndex: the try branch when sendViewRequest resolved, the
\* catch branch (no statusCode) when it threw.
ProgressPayload(eng, requestIndex, o) ==
  [type |-> "onProgress", current |-> requestIndex, total |-> eng.count,
   success |-> o.success, responseTime |-> o.responseTime,
   statusCode |-> IF o.resolved THEN o.statusCode ELSE undefined,
   error |-> o.error, consecutiveFailures |-> eng.consecutiveFailures]

\* consecutiveFailures after an outcome.
CountFailures(consecutiveFailures, success) ==
  IF ~success THEN consecutiveFailures + 1 ELSE 0

\* Mutant of AutoStopDue: the threshold compared with > instead of >=.
AutoStopDue_Late(consecutiveFailures, success) ==
  ~success /\ consecutiveFailures > MAX_CONSECUTIVE_FAILURES

\* The auto-stop test.
AutoStopDue(consecutiveFailures, success) ==
  ~success /\ consecutiveFailures >= MAX_CONSECUTIVE_FAILURES

\* Mutant of ScheduleDue: one request too many.
ScheduleDue_OffByOne(eng) ==
  eng.currentIndex <= eng.count /\ ~eng.isCancelled /\ ~eng.isPaused

\* The tests that end executeRequest, on the advanced currentIndex.
ScheduleDue(eng) ==
  eng.currentIndex < eng.count /\ ~eng.isCancelled /\ ~eng.isPaused

CompleteDue(eng) == eng.currentIndex >= eng.count /\ ~eng.isCancelled

\* executeRequest from the point where the awaited sendViewRequest of
\* requestIndex settled with outcome o, on an engine that is not cancelled.
ExecuteRequestSettled(r, requestIndex, o) ==
  LET p == ProgressPayload(r.eng, requestIndex, o)
      failures == CountFailures(r.eng.consecutiveFailures, o.success)
      reported == [r EXCEPT !.log = Append(@, p),
                            !.eng.consecutiveFailures = failures]
  IN IF AutoStopDue(failures, o.success)
     THEN DropTimer([reported EXCEPT
            !.eng.isCancelled = TRUE,
            !.log = Append(@, [type |-> "onAutoStop",
                               reason |-> AutoStopReason(p.statusCode, o.error),
                               consecutiveFailures |-> failures])])
     ELSE LET advanced == [reported EXCEPT !.eng.currentIndex = @ + 1]
          IN IF ScheduleDue(advanced.eng)
             THEN Schedule(advanced, advanced.eng.expectedTime + advanced.eng.interval)
             ELSE IF CompleteDue(advanced.eng)
             THEN [advanced EXCEPT !.log = Append(@, [type |-> "onComplete"])]
             ELSE advanced

Engine(e) == [eng |-> engines[e], timers |-> timers[e], log |-> events[e]]

\* -------------------------------------------------- the hook's callbacks

IsCallback(ev) == ev.type \in {"onProgress", "onComplete", "onAutoStop"}

\* What useBoostOperation's callbacks dispatch for one engine callback.
Dispatched(cb) ==
  CASE cb.type = "onProgress" ->
         [type |-> "UPDATE_PROGRESS", current |-> cb.current,
          success |-> cb.success, responseTime |-> cb.responseTime,
          consecutiveFailures |-> cb.consecutiveFailures]
    [] cb.type = "onComplete" -> [type |-> "COMPLETE"]
    [] cb.type = "onAutoStop" ->
         [type |-> "AUTO_STOP", reason |-> cb.reason,
          consecutiveFailures |-> cb.consecutiveFailures]

\* The snapshot after the dispatches of the callbacks, in order.
RECURSIVE Reduce(_, _)
Reduce(s, callbacks) ==
  IF callbacks = <<>> THEN s
  ELSE Reduce(boostReducer(s, Dispatched(Head(callbacks))), Tail(callbacks))

\* onComplete and onAutoStop also clear controllerRef.current.
ClearsController(callbacks) ==
  \E i \in DOMAIN callbacks : callbacks[i].type \in {"onComplete", "onAutoStop"}

\* ------------------------------------------------------------------ Init

Init ==
  /\ now = 1
  /\ engines = <<>>
  /\ timers = <<>>
  /\ inFlight = <<>>
  /\ events = <<>>
  /\ state = initialState
  /\ controllerRef = null
  /\ pauseStartTimeRef = null
  /\ ops = 0
  /\ pausedWall = 0
  /\ inFlightAtReset = <<>>
  /\ lastCallAt = <<>>

\* --------------------------------------------------------- engine events

\* The runtime runs the timeout t of engine e: execute() of scheduleAccurate,
\* then executeRequest up to its await (the proxy call is issued).
TimerFire(e, t) ==
  /\ timers[e][t].pending
  /\ now >= timers[e][t].due
  /\ timers' = [timers EXCEPT ![e][t].pending = FALSE]
  /\ IF timers[e][t].cancelled \/ engines[e].isCancelled
     THEN UNCHANGED <<inFlight, events, lastCallAt>>
     ELSE /\ inFlight' = [inFlight EXCEPT
                            ![e] = @ (+) SetToBag({engines[e].currentIndex})]
          /\ lastCallAt' = [lastCallAt EXCEPT ![e] = now]
          /\ events' = [events EXCEPT
                          ![e] = Append(@, [type |-> "call",
                                            current |-> engines[e].currentIndex])]
  /\ UNCHANGED <<now, engines, state, controllerRef, pauseStartTimeRef, ops,
                 pausedWall, inFlightAtReset>>

\* The awaited proxy call of requestIndex settles with outcome o and
\* executeRequest runs to its end.
ProxySettle(e, requestIndex, o) ==
  /\ BagIn(requestIndex, inFlight[e])
  /\ inFlight' = [inFlight EXCEPT ![e] = @ (-) SetToBag({requestIndex})]
  /\ LET settled == Append(events[e],
                           [type |-> "settle", current |-> requestIndex,
                            resolved |-> o.resolved, success |-> o.success,
                            statusCode |-> o.statusCode])
     IN IF engines[e].isCancelled
        THEN /\ events' = [events EXCEPT ![e] = settled]
             /\ UNCHANGED <<engines, timers, state, controllerRef>>
        ELSE LET r == ExecuteRequestSettled([Engine(e) EXCEPT !.log = settled],
                                            requestIndex, o)
                 callbacks == SelectSeq(SubSeq(r.log, Len(settled) + 1, Len(r.log)),
                                        IsCallback)
             IN /\ engines' = [engines EXCEPT ![e] = r.eng]
                /\ timers' = [timers EXCEPT ![e] = r.timers]
                /\ events' = [events EXCEPT ![e] = r.log]
                /\ state' = Reduce(state, callbacks)
                /\ controllerRef' = IF ClearsController(callbacks)
                                    THEN null ELSE controllerRef
  /\ UNCHANGED <<now, pauseStartTimeRef, ops, pausedWall, inFlightAtReset,
                 lastCallAt>>

\* ----------------------------------------------------------- user intents

\* The engines once the engine controllerRef.current holds has become r.
WithController(r) ==
  [engines |-> [engines EXCEPT ![controllerRef] = r.eng],
   timers |-> [timers EXCEPT ![controllerRef] = r.timers],
   events |-> [events EXCEPT ![controllerRef] = r.log]]

\* Mutant of CancelCurrent: the held controller is left running.
CancelCurrent_LeavesRunning ==
  [engines |-> engines, timers |-> timers, events |-> events]

\* if (controllerRef.current) controllerRef.current.cancel()
CancelCurrent ==
  IF controllerRef = null
  THEN [engines |-> engines, timers |-> timers, events |-> events]
  ELSE WithController(ControllerCancel(Engine(controllerRef)))

\* start(article, count, interval) of the hook. When buildArticleUrl throws,
\* startBoost creates nothing and the exception leaves start before
\* controllerRef is assigned.
Start(article, count, interval) ==
  /\ ops < MaxOps
  /\ Len(engines) < MaxRuns
  /\ ops' = ops + 1
  /\ state' = boostReducer(state, [type |-> "START", article |-> article,
                                   count |-> count, interval |-> interval])
  /\ pausedWall' = 0
  /\ IF buildArticleUrlThrows(article)
     THEN /\ engines' = CancelCurrent.engines
          /\ timers' = CancelCurrent.timers
          /\ events' = CancelCurrent.events
          /\ UNCHANGED <<inFlight, controllerRef, lastCallAt>>
     ELSE LET r == startBoost(count, interval)
          IN /\ engines' = Append(CancelCurrent.engines, r.eng)
             /\ timers' = Append(CancelCurrent.timers, r.timers)
             /\ events' = Append(CancelCurrent.events, r.log)
             /\ inFlight' = Append(inFlight, EmptyBag)
             /\ lastCallAt' = Append(lastCallAt, null)
             /\ controllerRef' = Len(engines) + 1
  /\ inFlightAtReset' = <<>>
  /\ UNCHANGED <<now, pauseStartTimeRef>>

HookPauseAllowed == controllerRef # null /\ state.status = "running"

HookResumeAllowed == controllerRef # null /\ state.status = "paused"

\* pause() of the hook; outside its guard it does nothing.
Pause ==
  /\ ops < MaxOps
  /\ HookPauseAllowed
  /\ engines' = WithController(ControllerPause(Engine(controllerRef))).engines
  /\ timers' = WithController(ControllerPause(Engine(controllerRef))).timers
  /\ events' = WithController(ControllerPause(Engine(controllerRef))).events
  /\ pauseStartTimeRef' = now
  /\ state' = boostReducer(state, [type |-> "PAUSE"])
  /\ ops' = ops + 1
  /\ UNCHANGED <<now, inFlight, controllerRef, pausedWall, inFlightAtReset,
                 lastCallAt>>

\* resume() of the hook; outside its guard it does nothing.
Resume ==
  /\ ops < MaxOps
  /\ HookResumeAllowed
  /\ engines' = WithController(ControllerResume(Engine(controllerRef))).engines
  /\ timers' = WithController(ControllerResume(Engine(controllerRef))).timers
  /\ events' = WithController(ControllerResume(Engine(controllerRef))).events
  /\ pauseStartTimeRef' = null
  /\ state' = boostReducer(state, [type |-> "RESUME"])
  /\ ops' = ops + 1
  /\ UNCHANGED <<now, inFlight, controllerRef, pausedWall, inFlightAtReset,
                 lastCallAt>>

\* reset() of the hook.
Reset ==
  /\ ops < MaxOps
  /\ ops' = ops + 1
  /\ engines' = CancelCurrent.engines
  /\ timers' = CancelCurrent.timers
  /\ events' = CancelCurrent.events
  /\ controllerRef' = null
  /\ pauseStartTimeRef' = null
  /\ state' = boostReducer(state, [type |-> "RESET"])
  /\ pausedWall' = 0
  /\ inFlightAtReset' = inFlight
  /\ UNCHANGED <<now, inFlight, lastCallAt>>

\* Date.now() advances by one unit.
Tick ==
  /\ now < MaxTime
  /\ now' = now + 1
  /\ pausedWall' = IF state.status = "paused" THEN pausedWall + 1 ELSE pausedWall
  /\ UNCHANGED <<engines, timers, inFlight, events, state, controllerRef,
                 pauseStartTimeRef, ops, inFlightAtReset, lastCallAt>>

Next ==
  \/ \E e \in DOMAIN engines : \E t \in DOMAIN timers[e] : TimerFire(e, t)
  \/ \E e \in DOMAIN engines : \E i \in BagToSet(inFlight[e]) :
       \E o \in Outcomes : ProxySettle(e, i, o)
  \/ \E a \in Articles : \E c \in Counts : \E i \in Intervals : Start(a, c, i)
  \/ Pause
  \/ Resume
  \/ Reset
  \/ Tick

Spec == Init /\ [][Next]_vars

\* ------------------------------------------------- the timer on its own
\* scheduleAccurate driven directly by a caller: handles are created with
\* any interval and expected time, cancelled at any moment and any number
\* of times, and run by the runtime once they are due. The handles are
\* timers[1]; events[1] records the cancel() calls and the callback runs.

TimerInit ==
  /\ now = 1
  /\ engines = <<>>
  /\ timers = << <<>> >>
  /\ inFlight = <<>>
  /\ events = << <<>> >>
  /\ state = initialState
  /\ controllerRef = null
  /\ pauseStartTimeRef = null
  /\ ops = 0
  /\ pausedWall = 0
  /\ inFlightAtReset = <<>>
  /\ lastCallAt = <<>>

\* handle = scheduleAccurate(callback, intervalMs, expectedTime)
TimerSchedule(intervalMs, expectedTime) ==
  /\ ops < MaxOps
  /\ Len(timers[1]) < MaxRuns
  /\ ops' = ops + 1
  /\ timers' = <<Append(timers[1], scheduleAccurate(intervalMs, expectedTime))>>
  /\ events' = <<Append(events[1], [type |-> "scheduleAccurate",
                                    timer |-> Len(timers[1]) + 1,
                                    at |-> now, intervalMs |-> intervalMs,
                                    expectedTime |-> expectedTime])>>
  /\ UNCHANGED <<now, engines, inFlight, state, controllerRef,
                 pauseStartTimeRef, pausedWall, inFlightAtReset, lastCallAt>>

\* handle.cancel()
TimerHandleCancel(h) ==
  /\ ops < MaxOps
  /\ ops' = ops + 1
  /\ timers' = <<TimerCancel(timers[1], h)>>
  /\ events' = <<Append(events[1], [type |-> "handleCancel", timer |-> h])>>
  /\ UNCHANGED <<now, engines, inFlight, state, controllerRef,
                 pauseStartTimeRef, pausedWall, inFlightAtReset, lastCallAt>>

\* The runtime runs the timeout of handle h: execute().
TimerExecute(h) ==
  /\ timers[1][h].pending
  /\ now >= timers[1][h].due
  /\ timers' = <<[timers[1] EXCEPT ![h].pending = FALSE]>>
  /\ events' = IF timers[1][h].cancelled THEN events
               ELSE <<Append(events[1], [type |-> "callback", timer |-> h])>>
  /\ UNCHANGED <<now, engines, inFlight, state, controllerRef,
                 pauseStartTimeRef, ops, pausedWall, inFlightAtReset, lastCallAt>>

TimerNext ==
  \/ \E i \in Intervals : \E x \in (now - 1)..(now + 2) : TimerSchedule(i, x)
  \/ \E h \in DOMAIN timers[1] : TimerHandleCancel(h)
  \/ \E h \in DOMAIN timers[1] : TimerExecute(h)
  \/ Tick

TimerSpec == TimerInit /\ [][TimerNext]_vars

\* ------------------------------------------- behaviours of a started run

\* The state right after the first start(article, count, interval) of a
\* valid article: the engine created and its first timer scheduled, the
\* snapshot running, the controller held. ops counts the operations made
\* after that start.
StartedInit ==
  \E c \in Counts : \E i \in Intervals :
    /\ now = 1
    /\ engines = <<startBoost(c, i).eng>>
    /\ timers = <<startBoost(c, i).timers>>
    /\ events = <<startBoost(c, i).log>>
    /\ inFlight = <<EmptyBag>>
    /\ state = boostReducer(initialState,
                            [type |-> "START", article |-> "valid",
                             count |-> c, interval |-> i])
    /\ controllerRef = 1
    /\ pauseStartTimeRef = null
    /\ ops = 0
    /\ pausedWall = 0
    /\ inFlightAtReset = <<>>
    /\ lastCallAt = <<null>>

StartedSpec == StartedInit /\ [][Next]_vars

\* ------------------------------------------ behaviours of a failing run

\* Error texts a failed outcome may carry: with the WAF signature, the
\* timeout signature, both, the glossed Chinese signatures, and none
\* (includes is case-sensitive: "Timeout" is not "timeout").
ReasonErrors ==
  {"WAF block detected", "Request timeout", "WAF gateway timeout",
   "firewall block", "request timed out", "HTTP 504: Gateway Timeout"}

\* Outcomes of a started run left to itself: a success, the proxy's JSON
\* for a failure (any status, any text), the object sendViewRequest throws
\* (statusCode 0, any text).
ReasonOutcomes ==
  {[resolved |-> TRUE, success |-> TRUE, statusCode |-> 200,
    responseTime |-> 1, error |-> "undefined"]}
  \cup {[resolved |-> TRUE, success |-> FALSE, statusCode |-> sc,
         responseTime |-> 1, error |-> err] :
          sc \in {404, 429, 500}, err \in ReasonErrors}
  \cup {[resolved |-> FALSE, success |-> FALSE, statusCode |-> 0,
         responseTime |-> 0, error |-> err] : err \in ReasonErrors}

ReasonNext ==
  \/ \E e \in DOMAIN engines : \E t \in DOMAIN timers[e] : TimerFire(e, t)
  \/ \E e \in DOMAIN engines : \E i \in BagToSet(inFlight[e]) :
       \E o \in ReasonOutcomes : ProxySettle(e, i, o)
  \/ Tick

ReasonSpec == StartedInit /\ [][ReasonNext]_vars

\* ------------------------------------- the controller called directly

\* A caller holding the BoostController of engine e calls one of its
\* methods, in whatever state the engine is. The call itself is logged
\* before the method runs.
Called(e, method) ==
  [Engine(e) EXCEPT !.log = Append(@, [type |-> "called", method |-> method])]

ControllerCall(e, r) ==
  /\ ops < MaxOps
  /\ ops' = ops + 1
  /\ engines' = [engines EXCEPT ![e] = r.eng]
  /\ timers' = [timers EXCEPT ![e] = r.timers]
  /\ events' = [events EXCEPT ![e] = r.log]
  /\ UNCHANGED <<now, inFlight, state, controllerRef, pauseStartTimeRef,
                 pausedWall, inFlightAtReset, lastCallAt>>

CallPause(e) == ControllerCall(e, ControllerPause(Called(e, "pause")))

CallResume(e) == ControllerCall(e, ControllerResume(Called(e, "resume")))

CallCancel(e) == ControllerCall(e, ControllerCancel(Called(e, "cancel")))

ControllerNext ==
  \/ \E e \in DOMAIN engines : \E t \in DOMAIN timers[e] : TimerFire(e, t)
  \/ \E e \in DOMAIN engines : \E i \in BagToSet(inFlight[e]) :
       \E o \in Outcomes : ProxySettle(e, i, o)
  \/ \E e \in DOMAIN engines : CallPause(e)
  \/ \E e \in DOMAIN engines : CallResume(e)
  \/ \E e \in DOMAIN engines : CallCancel(e)
  \/ Tick

ControllerSpec == StartedInit /\ [][ControllerNext]_vars

\* ----------------------------------------- a run left to itself, fairly

\* A started run that nobody pauses, resumes, cancels or restarts. The
\* runtime runs every timeout that is due and the clock advances; nothing
\* in sendViewRequest or in the proxy route bounds the awaited fetch (no
\* AbortSignal, API.TIMEOUT is not used), so no fairness is stated for the
\* settlement of a proxy call.
TimersRun ==
  \E e \in DOMAIN engines : \E t \in DOMAIN timers[e] : TimerFire(e, t)

RunNext ==
  \/ TimersRun
  \/ \E e \in DOMAIN engines : \E i \in BagToSet(inFlight[e]) :
       \E o \in Outcomes : ProxySettle(e, i, o)
  \/ Tick

RunSpec ==
  StartedInit /\ [][RunNext]_vars /\ WF_vars(TimersRun) /\ WF_vars(Tick)

\* ---------------------------------------------------------------- history

IsCall(ev) == ev.type = "call"
IsProgress(ev) == ev.type = "onProgress"
IsComplete(ev) == ev.type = "onComplete"
IsAutoStop(ev) == ev.type = "onAutoStop"

Calls(e) == SelectSeq(events[e], IsCall)
Progress(e) == SelectSeq(events[e], IsProgress)
Completes(e) == Len(SelectSeq(events[e], IsComplete))
AutoStops(e) == Len(SelectSeq(events[e], IsAutoStop))

Happened(e, type) == \E i \in DOMAIN events[e] : events[e][i].type = type

PendingTimers(e) == Cardinality({t \in DOMAIN timers[e] : timers[e][t].pending})

\* The indices carried by a sequence of events are 0, 1, 2, ...
CountsUp(evs) == \A k \in DOMAIN evs : evs[k].current = k - 1

AllSucceeded(e) == \A k \in DOMAIN Progress(e) : Progress(e)[k].success

\* ------------------------------------------------------------------ claims

\* C1: the onProgress events of every run carry the indices 0, 1, 2, ... in
\* this order, none repeated and none skipped, whatever the interleaving of
\* pause, resume, cancel, timer fires and proxy resolutions.
C1_ProgressIndicesCountUp ==
  \A e \in DOMAIN events : CountsUp(Progress(e))

\* C2: at most one proxy call of a run is in flight at any time.
C2_OneCallInFlight ==
  \A e \in DOMAIN inFlight : BagCardinality(inFlight[e]) <= 1

\* C3: a run with count = N that is never paused, never cancelled and never
\* auto-stopped issues the calls 0..N-1 one at a time, reports each, invokes
\* onComplete once after the N-th outcome and schedules nothing after it;
\* until then it always has exactly one timer pending or one call in flight;
\* the step that invokes onComplete leaves the snapshot in status completed.
Undisturbed(e) ==
  ~Happened(e, "pause") /\ ~Happened(e, "cancel") /\ ~Happened(e, "onAutoStop")

RunShape(e) ==
  LET n == engines[e].count
      flying == BagCardinality(inFlight[e])
      done == Len(Progress(e)) = n
  IN /\ CountsUp(Calls(e))
     /\ CountsUp(Progress(e))
     /\ Len(Calls(e)) <= n
     /\ Len(Progress(e)) + flying = Len(Calls(e))
     /\ PendingTimers(e) + flying = (IF done THEN 0 ELSE 1)
     /\ Completes(e) = (IF done THEN 1 ELSE 0)
     /\ done => events[e][Len(events[e])].type = "onComplete"

CompletedBefore(e) == IF e \in DOMAIN events THEN Completes(e) ELSE 0

C3_UndisturbedRunCompletes ==
  [][\A e \in DOMAIN events' :
       Undisturbed(e)' =>
         /\ RunShape(e)'
         /\ Completes(e)' > CompletedBefore(e) => state'.status = "completed"]_vars

C3_Witness ==
  \E e \in DOMAIN events :
    /\ Undisturbed(e)
    /\ engines[e].count >= 2
    /\ Completes(e) = 1
    /\ state.status = "completed"

\* C4: a run with count = N that is not cancelled and whose proxy calls all
\* succeed never issues more than N proxy calls, however often it is paused
\* and resumed, and has issued exactly N when it completes.
C4_PausedRunIssuesExactlyN ==
  \A e \in DOMAIN events :
    (~Happened(e, "cancel") /\ AllSucceeded(e)) =>
      /\ Len(Calls(e)) <= engines[e].count
      /\ Happened(e, "onComplete") => Len(Calls(e)) = engines[e].count

\* C5: the third consecutive failure cancels the run: onAutoStop is invoked,
\* nothing is issued, scheduled or reported after it, and onComplete is
\* never invoked for that run.
C5_AutoStopEndsRun ==
  \A e \in DOMAIN events :
    /\ engines[e].consecutiveFailures >= MAX_CONSECUTIVE_FAILURES =>
         engines[e].isCancelled /\ AutoStops(e) = 1
    /\ \A i \in DOMAIN events[e] : \A j \in DOMAIN events[e] :
         (events[e][i].type = "onAutoStop" /\ j > i) =>
           events[e][j].type \notin {"call", "schedule", "onProgress", "onComplete"}
    /\ Happened(e, "onAutoStop") => ~Happened(e, "onComplete")

\* C6: while the snapshot is running its consecutiveFailures is at most 2;
\* the step in which an engine records its third consecutive failure cancels
\* that engine and puts the snapshot in status error, and the engine issues
\* no proxy call afterwards.
C6_ThreeFailuresStopTheRun ==
  [][/\ state'.status = "running" => state'.metrics.consecutiveFailures <= 2
     /\ \A e \in DOMAIN engines :
          /\ ( /\ engines[e].consecutiveFailures < MAX_CONSECUTIVE_FAILURES
               /\ engines'[e].consecutiveFailures >= MAX_CONSECUTIVE_FAILURES )
             => (engines'[e].isCancelled /\ state'.status = "error")
          /\ engines[e].consecutiveFailures >= MAX_CONSECUTIVE_FAILURES
             => (engines'[e].isCancelled /\ Calls(e)' = Calls(e))]_vars

C6_Witness ==
  /\ state.status = "error"
  /\ state.metrics.consecutiveFailures = 2
  /\ \E e \in DOMAIN engines :
       /\ engines[e].consecutiveFailures = MAX_CONSECUTIVE_FAILURES
       /\ ~Happened(e, "pause")

\* C7: a failed proxy call settling on a run that is not cancelled is
\* reported as one onProgress event with success = false for its index, with
\* the proxy's statusCode when the call resolved and none when it was
\* rejected; while fewer than 3 consecutive failures have occurred it is not
\* followed by onAutoStop, and the next tick is scheduled whenever requests
\* remain and the run is not paused.
StoppedBefore(e, i) ==
  \E j \in 1..(i - 1) : events[e][j].type \in {"cancel", "onAutoStop"}

PausedAt(e, i) ==
  LET ctl == {j \in 1..i : events[e][j].type \in {"pause", "resume"}}
  IN ctl # {} /\ events[e][CHOOSE j \in ctl : \A k \in ctl : k <= j].type = "pause"

ProgressUpTo(e, i) ==
  Cardinality({j \in 1..i : events[e][j].type = "onProgress"})

FollowedBy(e, i, type) ==
  (i + 1) \in DOMAIN events[e] /\ events[e][i + 1].type = type

C7_SingleFailureIsReported ==
  \A e \in DOMAIN events : \A i \in DOMAIN events[e] :
    LET ev == events[e][i]
    IN (ev.type = "settle" /\ ~ev.success /\ ~StoppedBefore(e, i)) =>
         /\ FollowedBy(e, i, "onProgress")
         /\ LET p == events[e][i + 1]
            IN /\ p.current = ev.current
               /\ p.success = FALSE
               /\ p.statusCode = (IF ev.resolved THEN ev.statusCode ELSE undefined)
               /\ p.consecutiveFailures + 1 < MAX_CONSECUTIVE_FAILURES =>
                    /\ ~FollowedBy(e, i + 1, "onAutoStop")
                    /\ ( /\ ProgressUpTo(e, i + 1) < engines[e].count
                         /\ ~PausedAt(e, i) )
                       => FollowedBy(e, i + 1, "schedule")

C7_Witness ==
  \E e \in DOMAIN events : \E i \in DOMAIN events[e] :
    /\ events[e][i].type = "settle"
    /\ ~events[e][i].resolved
    /\ FollowedBy(e, i, "onProgress")
    /\ events[e][i + 1].statusCode = undefined
    /\ FollowedBy(e, i + 1, "schedule")

\* C8: in every snapshot metrics.current = metrics.success + metrics.failed.
C8_CurrentIsSuccessPlusFailed ==
  state.metrics.current = state.metrics.success + state.metrics.failed

\* C9: whenever the snapshot is completed, metrics.current equals config.count
\* and equals the number of proxy calls issued in the run.
C9_CompletedCountsAllCalls ==
  state.status = "completed" =>
    /\ state.metrics.current = state.config.count
    /\ engines # <<>>
    /\ state.metrics.current = Len(Calls(Len(engines)))

\* C10: when a run that was paused and resumed reaches completed,
\* timing.duration is endTime - startTime minus the time spent paused.
C10_DurationExcludesPausedTime ==
  ( /\ state.status = "completed"
    /\ engines # <<>>
    /\ Happened(Len(engines), "resume") )
  => state.timing.duration =
       state.timing.endTime - state.timing.startTime - pausedWall

\* C11: reset(), from any status and after any history, leaves the snapshot
\* equal to the initial idle snapshot in every field, and the controller held
\* before it is cancelled (flag set, its timer cleared) and no longer held.
C11_ResetRestoresInitial ==
  [][Reset =>
       /\ state' = initialState
       /\ controllerRef' = null
       /\ controllerRef # null =>
            /\ engines'[controllerRef].isCancelled
            /\ engines'[controllerRef].currentTimer = null
            /\ engines[controllerRef].currentTimer # null =>
                 ~timers'[controllerRef][engines[controllerRef].currentTimer].pending]_vars

C11_Witness ==
  /\ state = initialState
  /\ controllerRef = null
  /\ \E e \in DOMAIN events :
       /\ Len(Progress(e)) >= 1
       /\ Happened(e, "pause")
       /\ events[e][Len(events[e])].type = "cancel"
       /\ PendingTimers(e) = 0

\* C12: a proxy call that was in flight when reset() was called leaves the
\* snapshot alone when it settles later, whatever its outcome: the snapshot
\* is the initial idle snapshot before and after, so the old run applies no
\* progress and no lifecycle transition to it.
SettlesIn(e, i) == CopiesIn(i, inFlight'[e]) < CopiesIn(i, inFlight[e])

C12_LateOutcomeAfterReset ==
  [][\A e \in DOMAIN inFlightAtReset :
       \A i \in BagToSet(inFlightAtReset[e]) :
         SettlesIn(e, i) => (state = initialState /\ state' = initialState)]_vars

\* C13: once cancel() has returned, the run issues no proxy call and
\* schedules no timer in any later step, whatever fires, settles or is
\* called (pause, resume, cancel again): its closure state stays as cancel()
\* left it; a run cancelled before its first tick fired never reports
\* progress.
IsSchedule(ev) == ev.type = "schedule"

C13_CancelIsFinal ==
  [][\A e \in DOMAIN events :
       Happened(e, "cancel") =>
         /\ Calls(e)' = Calls(e)
         /\ SelectSeq(events[e], IsSchedule)' = SelectSeq(events[e], IsSchedule)
         /\ Len(timers[e])' = Len(timers[e])
         /\ engines'[e] = engines[e]
         /\ Calls(e) = <<>> => Progress(e)' = <<>>]_vars

\* pause() reached a cancelled run the hook still holds (the snapshot is
\* paused, the engine is not), and a call of that run settled after the
\* cancel.
C13_Witness ==
  \E e \in DOMAIN events :
    /\ controllerRef = e
    /\ engines[e].isCancelled
    /\ state.status = "paused"
    /\ \E i \in DOMAIN events[e] : \E j \in DOMAIN events[e] :
         i < j /\ events[e][i].type = "cancel" /\ events[e][j].type = "settle"

\* C14: between a pause() that took effect and the next resume() the run
\* issues no proxy call and schedules no timer; an outcome that arrives in
\* between is still reported through onProgress.
C14_NoCallWhilePaused ==
  \A e \in DOMAIN events : \A i \in DOMAIN events[e] :
    PausedAt(e, i) =>
      /\ events[e][i].type \notin {"call", "schedule"}
      /\ (events[e][i].type = "settle" /\ ~StoppedBefore(e, i)) =>
           FollowedBy(e, i, "onProgress")

\* C15: the snapshot enters completed or error only from running: no step
\* takes it from paused or idle into completed or error.
C15_TerminalOnlyFromRunning ==
  [][(state'.status \in {"completed", "error"} /\ state.status # state'.status)
       => state.status = "running"]_vars

\* C16: in every snapshot the error field is set only when status is error.
C16_ErrorOnlyInStatusError ==
  state.error # <<>> => state.status = "error"

\* C17: at most one engine is active at any time: of all the runs started
\* so far at most one is not cancelled and still has a timer pending or a
\* proxy call in flight, so only the newest run can issue calls or deliver
\* events to the snapshot.
Active(e) ==
  /\ ~engines[e].isCancelled
  /\ PendingTimers(e) > 0 \/ inFlight[e] # EmptyBag

C17_OneActiveEngine ==
  Cardinality({e \in DOMAIN engines : Active(e)}) <= 1

\* C18: two consecutive proxy calls of a run are issued at least interval
\* apart, whatever the latencies of the proxy. Stated for runs that were
\* never paused, which have a single chain of ticks.
C18_CallsSpacedByInterval ==
  [][\A e \in DOMAIN engines :
       ( /\ ~Happened(e, "pause")
         /\ Calls(e) # <<>>
         /\ Len(Calls(e))' > Len(Calls(e)) )
       => now' - lastCallAt[e] >= engines[e].interval]_vars

\* C19: the step in which a run is auto-stopped on the failed outcome of
\* index k leaves exactly k+1 onProgress events of that run, with the
\* indices 0..k, no proxy call of an index above k, and the snapshot in
\* status error with metrics.current = k+1.
LastProgress(e) == Progress(e)[Len(Progress(e))]

C19_AutoStopAfterKPlusOne ==
  [][\A e \in DOMAIN events :
       AutoStops(e)' > AutoStops(e) =>
         LET k == LastProgress(e)'.current
         IN /\ Len(Progress(e))' = k + 1
            /\ CountsUp(Progress(e))'
            /\ \A c \in DOMAIN Calls(e)' : Calls(e)'[c].current <= k
            /\ state'.status = "error"
            /\ state'.metrics.current = k + 1]_vars

\* C20: a run that is paused before its first tick fired and resumed later,
\* and not disturbed otherwise, issues the calls 0..N-1 one at a time
\* starting from index 0 and invokes onComplete once after the N-th outcome:
\* from the resume on it always has exactly one timer pending or one call in
\* flight until then, and the completing step leaves the snapshot completed.
PausedBeforeFirstTick(e) ==
  /\ Len(events[e]) >= 3
  /\ events[e][2].type = "pause"
  /\ events[e][3].type = "resume"
  /\ \A i \in DOMAIN events[e] :
       /\ events[e][i].type \notin {"cancel", "onAutoStop"}
       /\ i > 3 => events[e][i].type \notin {"pause", "resume"}

C20_PauseBeforeFirstTick ==
  [][\A e \in DOMAIN events' :
       PausedBeforeFirstTick(e)' =>
         /\ RunShape(e)'
         /\ Completes(e)' > CompletedBefore(e) => state'.status = "completed"]_vars

C20_Witness ==
  \E e \in DOMAIN events :
    /\ PausedBeforeFirstTick(e)
    /\ engines[e].count >= 2
    /\ Len(Calls(e)) = engines[e].count
    /\ Completes(e) = 1
    /\ state.status = "completed"

\* C21: start() with an article that buildArticleUrl rejects throws before
\* anything is scheduled or issued: the step creates no engine, no timer and
\* no proxy call; and while the snapshot is the one of that start, no
\* progress reaches it: metrics.current stays 0.
C21_InvalidStartDoesNothing ==
  [][/\ (\E c \in Counts : \E i \in Intervals : Start("badId", c, i)) =>
          /\ Len(engines') = Len(engines)
          /\ \A e \in DOMAIN engines :
               Len(timers'[e]) = Len(timers[e]) /\ Calls(e)' = Calls(e)
          /\ inFlight' = inFlight
     /\ state'.article = "badId" => state'.metrics.current = 0]_vars

\* C22: in every snapshot averageResponseTime is the mean of responseTimes
\* rounded to the nearest integer, halves upwards (0 for the empty list),
\* and every onProgress event appends its responseTime to responseTimes.
IsRoundedMean(a, s) ==
  IF s = <<>> THEN a = 0
  ELSE /\ 2 * a * Len(s) <= 2 * SumSeq(s) + Len(s)
       /\ 2 * SumSeq(s) + Len(s) < 2 * (a + 1) * Len(s)

C22_AverageIsRoundedMean ==
  [][/\ IsRoundedMean(state'.metrics.averageResponseTime,
                      state'.metrics.responseTimes)
     /\ \A e \in DOMAIN events :
          Len(Progress(e))' > Len(Progress(e)) =>
            state'.metrics.responseTimes =
              Append(state.metrics.responseTimes, LastProgress(e)'.responseTime)]_vars

\* The mean of the recorded times is 3/2 and the average shown is 2.
C22_Witness ==
  /\ Len(state.metrics.responseTimes) = 2
  /\ SumSeq(state.metrics.responseTimes) = 3
  /\ state.metrics.averageResponseTime = 2

\* C23: once cancel() has been called on a handle, the callback of that
\* handle is never run, whether the timeout had not yet expired or had
\* expired and was waiting to run; a further cancel() on it changes nothing.
C23_CancelledHandleNeverRuns ==
  [][/\ \A j \in DOMAIN events'[1] : \A i \in 1..(j - 1) :
          ~ ( /\ events'[1][i].type = "handleCancel"
              /\ events'[1][j].type = "callback"
              /\ events'[1][j].timer = events'[1][i].timer )
     /\ \A h \in DOMAIN timers[1] :
          (timers[1][h].cancelled /\ TimerHandleCancel(h)) => timers' = timers]_vars

\* A handle was cancelled when its timeout had expired without having run,
\* then cancelled again, and time went on.
C23_Witness ==
  \E i \in DOMAIN events[1] : \E j \in DOMAIN events[1] :
    /\ i < j
    /\ events[1][i].type = "handleCancel"
    /\ events[1][j].type = "handleCancel"
    /\ events[1][i].timer = events[1][j].timer
    /\ timers[1][events[1][i].timer].due = 1
    /\ \A k \in 1..i : events[1][k].type # "callback"
    /\ now > 1

\* C24 as stated: the outcome of a proxy call that was in flight when
\* cancel() was called is still reported through onProgress when it settles.
C24_InFlightOutcomeReported ==
  \A e \in DOMAIN events : \A i \in DOMAIN events[e] : \A j \in DOMAIN events[e] :
    (i < j /\ events[e][i].type = "cancel" /\ events[e][j].type = "settle")
      => FollowedBy(e, j, "onProgress")

\* C24 amended: the outcome of a proxy call that was in flight when cancel()
\* was called is dropped when it settles: after cancel() the run invokes no
\* callback, issues no call and schedules nothing.
C24_InFlightOutcomeDropped ==
  \A e \in DOMAIN events : \A i \in DOMAIN events[e] : \A j \in DOMAIN events[e] :
    (i < j /\ events[e][i].type = "cancel")
      => events[e][j].type \in {"settle", "cancel"}

\* A call issued before cancel() settled after it, as a success.
C24_Witness ==
  \E e \in DOMAIN events : \E c \in DOMAIN events[e] :
    \E i \in DOMAIN events[e] : \E j \in DOMAIN events[e] :
      /\ c < i /\ i < j
      /\ events[e][c].type = "call"
      /\ events[e][i].type = "cancel"
      /\ events[e][j].type = "settle"
      /\ events[e][j].success
      /\ events[e][j].current = events[e][c].current

\* C25: a snapshot in status completed or error changes status only to
\* idle (by reset()): no step takes it directly to running, paused or the
\* other terminal status.
C25_TerminalLeavesOnlyToIdle ==
  [][(state.status \in {"completed", "error"} /\ state'.status # state.status)
       => state'.status = "idle"]_vars

\* C26: after each resume() (the step from paused to running),
\* timing.pausedDuration equals the wall-clock time the current run has
\* spent paused so far.
C26_PausedDurationAccumulates ==
  [][(state.status = "paused" /\ state'.status = "running")
       => state'.timing.pausedDuration = pausedWall']_vars

\* The length of the unbroken streak of failed outcomes that ends a
\* sequence of onProgress events.
RECURSIVE Streak(_)
Streak(evs) ==
  IF evs = <<>> \/ evs[Len(evs)].success
  THEN 0
  ELSE 1 + Streak(SubSeq(evs, 1, Len(evs) - 1))

\* C27: after every progress event, metrics.consecutiveFailures of the
\* snapshot is the length of the unbroken streak of failed outcomes of the
\* run that ends at that event (0 after a success).
C27_SnapshotCountsStreak ==
  [][\A e \in DOMAIN events :
       Len(Progress(e))' > Len(Progress(e))
         => state'.metrics.consecutiveFailures = Streak(Progress(e))']_vars

\* The time of the last resume() that took effect on engine e.
Resumes(e) == {i \in DOMAIN events[e] : events[e][i].type = "resume"}
LastResumeAt(e) ==
  events[e][CHOOSE i \in Resumes(e) : \A j \in Resumes(e) : j <= i].at

\* C28: a resume() that takes effect sets expectedTime to the time of the
\* resume plus the interval, and every tick of the run after it (a timer
\* callback that issues a proxy call) comes at least one interval after it.
C28_ResumeRestartsClock ==
  [][\A e \in DOMAIN events :
       /\ Resumes(e)' # Resumes(e)
            => /\ engines[e]'.expectedTime = now + engines[e].interval
               /\ timers[e]'[engines[e]'.currentTimer].due
                    = now + engines[e].interval
       /\ (Resumes(e) # {} /\ Len(Calls(e))' > Len(Calls(e)))
            => now' >= LastResumeAt(e) + engines[e].interval]_vars

\* The timers of engine e that a step creates.
NewTimers(e) ==
  {h \in DOMAIN timers[e]' :
     e \notin DOMAIN timers \/ h \notin DOMAIN timers[e]}

\* The held run was never paused and has a tick still to come.
UnpausedRun(e) ==
  /\ e = controllerRef
  /\ ~engines[e].isCancelled
  /\ ~Happened(e, "pause")
  /\ engines[e].currentIndex < engines[e].count

\* C29: the delay of every timer scheduleAccurate creates is
\* max(0, intervalMs - drift) with drift = now - (expectedTime - intervalMs):
\* never negative, and expectedTime - now whenever expectedTime >= now; and
\* in a run never paused the expected time of tick k is
\* start time + (k+1) * intervalMs.
C29_DelayCompensatesDrift ==
  [][/\ \A e \in DOMAIN timers' : \A h \in NewTimers(e) :
          LET delay == timers[e]'[h].due - now
              intervalMs == engines[e]'.interval
              expectedTime == engines[e]'.expectedTime
              drift == now - (expectedTime - intervalMs)
          IN /\ delay = Max(0, intervalMs - drift)
             /\ delay >= 0
             /\ expectedTime >= now => delay = expectedTime - now
     /\ \A e \in DOMAIN engines' :
          UnpausedRun(e)' =>
            engines[e]'.expectedTime
              = state'.timing.startTime
                + (engines[e]'.currentIndex + 1) * engines[e]'.interval]_vars

\* C29 witness: in a run never paused, the timer of a tick after the first
\* was scheduled after its expected time had passed (delay clamped to 0).
C29_Witness ==
  \E e \in DOMAIN engines :
    /\ UnpausedRun(e)
    /\ engines[e].currentIndex >= 1
    /\ engines[e].currentTimer # null
    /\ timers[e][engines[e].currentTimer].pending
    /\ timers[e][engines[e].currentTimer].due > engines[e].expectedTime

HasFirewallSignature(error) ==
  Includes(error, "WAF") \/ Includes(error, "firewall")

HasTimeoutSignature(error) ==
  Includes(error, "timeout") \/ Includes(error, "timed out")

\* C30: the reason of every auto-stop follows from the last outcome alone:
\* status 404 gives article not found; else status 429 gives rate limited;
\* else a firewall signature in the error text gives blocked by firewall;
\* else a timeout signature gives request timed out; else the generic
\* reason.
C30_ReasonFollowsPriority ==
  \A e \in DOMAIN events : \A i \in DOMAIN events[e] :
    events[e][i].type = "onAutoStop" =>
      LET reason == events[e][i].reason
          statusCode == events[e][i - 2].statusCode
          error == events[e][i - 1].error
      IN /\ events[e][i - 2].type = "settle"
         /\ events[e][i - 1].type = "onProgress"
         /\ statusCode = 404 => reason = "article not found (404)"
         /\ statusCode = 429 => reason = "rate limited (429)"
         /\ (statusCode \notin {404, 429} /\ HasFirewallSignature(error))
              => reason = "blocked by firewall"
         /\ ( /\ statusCode \notin {404, 429}
              /\ ~HasFirewallSignature(error)
              /\ HasTimeoutSignature(error) )
              => reason = "request timed out"
         /\ ( /\ statusCode \notin {404, 429}
              /\ ~HasFirewallSignature(error)
              /\ ~HasTimeoutSignature(error) )
              => reason = "too many consecutive failures"

\* C30 witness: a run auto-stopped as blocked by firewall on a last outcome
\* whose text carries both signatures, after an earlier outcome of status
\* 404.
C30_Witness ==
  \E e \in DOMAIN events : \E i \in DOMAIN events[e] :
    /\ events[e][i].type = "onAutoStop"
    /\ events[e][i].reason = "blocked by firewall"
    /\ events[e][i - 1].error = "WAF gateway timeout"
    /\ \E j \in 1..(i - 3) :
         events[e][j].type = "settle" /\ events[e][j].statusCode = 404

\* C31: a start() that creates an engine leaves the snapshot running with
\* article and config from its arguments, startTime = now, endTime and error
\* null, and every metric and duration zero, whatever the snapshot was.
C31_StartResetsSnapshot ==
  [][Len(engines)' > Len(engines) =>
       LET eng == engines'[Len(engines) + 1]
       IN /\ state'.status = "running"
          /\ state'.article = "valid"
          /\ state'.config = [count |-> eng.count, interval |-> eng.interval]
          /\ state'.timing = [startTime |-> now, endTime |-> null,
                              duration |-> 0, pausedDuration |-> 0]
          /\ state'.error = <<>>
          /\ state'.metrics = [current |-> 0, success |-> 0, failed |-> 0,
                               consecutiveFailures |-> 0,
                               responseTimes |-> <<>>,
                               averageResponseTime |-> 0]]_vars

\* C31 witness: a second run just started over a snapshot that held the
\* outcomes and the end time of a first run.
C31_Witness ==
  /\ Len(engines) = 2
  /\ events[2] = <<[type |-> "schedule"]>>
  /\ Progress(1) # <<>>
  /\ Completes(1) = 1
  /\ state.status = "running"
  /\ state.metrics.current = 0
  /\ state.timing.startTime = now
  /\ state.timing.startTime > 1

\* The steps in which the reducer applies PAUSE and RESUME: pause() is the
\* only operation from running to paused; resume() is the one from paused to
\* running that clears pauseStartTimeRef (start() leaves it).
PauseStep == state.status = "running" /\ state'.status = "paused"

ResumeStep ==
  /\ state.status = "paused"
  /\ state'.status = "running"
  /\ pauseStartTimeRef' = null

\* C32: the PAUSE and RESUME transitions of the snapshot change the status
\* only: metrics, config, article, error and timing are as before.
C32_PauseResumeChangeStatusOnly ==
  [][(PauseStep \/ ResumeStep) =>
       /\ state'.metrics = state.metrics
       /\ state'.config = state.config
       /\ state'.article = state.article
       /\ state'.error = state.error
       /\ state'.timing = state.timing]_vars

\* C32 witness: a snapshot that already held a failed outcome has been
\* paused and resumed.
C32_Witness ==
  /\ state.status = "running"
  /\ controllerRef # null
  /\ pauseStartTimeRef = null
  /\ state.metrics.failed >= 1
  /\ \E i, j, k \in DOMAIN events[controllerRef] :
       /\ i < j /\ j < k
       /\ events[controllerRef][i].type = "onProgress"
       /\ events[controllerRef][j].type = "pause"
       /\ events[controllerRef][k].type = "resume"

\* The step is a call of method on engine e that changes nothing of the
\* engine: its closure variables and its timers are as before, and nothing
\* but the call is added to its history (no timer scheduled).
NoOpCall(e, method) ==
  /\ engines'[e] = engines[e]
  /\ timers'[e] = timers[e]
  /\ events'[e] = Append(events[e], [type |-> "called", method |-> method])

\* C33: pause() on an engine already paused or cancelled, and resume() on
\* an engine not paused or cancelled, change nothing of the engine and
\* schedule nothing.
C33_InvalidCallsAreNoOps ==
  [][\A e \in DOMAIN engines :
       /\ (CallPause(e) /\ (engines[e].isPaused \/ engines[e].isCancelled))
            => NoOpCall(e, "pause")
       /\ (CallResume(e) /\ (~engines[e].isPaused \/ engines[e].isCancelled))
            => NoOpCall(e, "resume")]_vars

\* A call of method on engine e, at position i of its history, that had no
\* effect: the method's own entry does not follow it.
IneffectiveCall(e, i, method) ==
  /\ events[e][i].type = "called"
  /\ events[e][i].method = method
  /\ ~FollowedBy(e, i, method)

\* C33 witness: an engine never cancelled has taken a pause() while paused
\* and a resume() while not paused, and still has a timer pending.
C33_Witness ==
  \E e \in DOMAIN engines :
    /\ ~engines[e].isCancelled
    /\ ~Happened(e, "cancel")
    /\ \E i \in DOMAIN events[e] : IneffectiveCall(e, i, "pause")
    /\ \E i \in DOMAIN events[e] : IneffectiveCall(e, i, "resume")
    /\ PendingTimers(e) >= 1

\* C34: every proxy call issued is eventually reported (the awaited call
\* settles), so that the run cannot stall on one tick.
C34_CallEventuallyReported ==
  \A e \in 1..MaxRuns :
    (e \in DOMAIN inFlight /\ inFlight[e] # EmptyBag)
      ~> (e \in DOMAIN inFlight /\ inFlight[e] = EmptyBag)

\* C35: a run delivers at most one terminal event: onComplete at most once,
\* onAutoStop at most once, never both.
C35_OneTerminalEvent ==
  \A e \in DOMAIN events :
    /\ Completes(e) <= 1
    /\ AutoStops(e) <= 1
    /\ Completes(e) + AutoStops(e) <= 1

\* C36: whenever the snapshot is running or paused, the hook holds a
\* controller and that controller is not cancelled.
C36_ActiveStatusHasLiveController ==
  state.status \in {"running", "paused"} =>
    /\ controllerRef # null
    /\ ~engines[controllerRef].isCancelled

\* C37: while the snapshot is completed or error, every step that is not an
\* operation of the hook (reset() or start()) leaves metrics.current,
\* success, failed, responseTimes, averageResponseTime and endTime as they
\* are.
C37_TerminalSnapshotIsFrozen ==
  [][(state.status \in {"completed", "error"} /\ ops' = ops) =>
       /\ state'.metrics.current = state.metrics.current
       /\ state'.metrics.success = state.metrics.success
       /\ state'.metrics.failed = state.metrics.failed
       /\ state'.metrics.responseTimes = state.metrics.responseTimes
       /\ state'.metrics.averageResponseTime = state.metrics.averageResponseTime
       /\ state'.timing.endTime = state.timing.endTime]_vars

\* getProgress of the hook.
getProgress ==
  IF state.config.count = 0 THEN 0
  ELSE MathRound(state.metrics.current * 100, state.config.count)

\* C38: in every snapshot metrics.current is within 0..config.count and the
\* progress percentage is within 0..100.
C38_ProgressWithinBounds ==
  /\ state.metrics.current >= 0
  /\ state.metrics.current <= state.config.count
  /\ getProgress \in 0..100

\* C39: while the hook holds a controller, the snapshot is paused exactly
\* when the engine's isPaused is set, and running exactly when the engine is
\* neither paused nor cancelled.
C39_SnapshotAgreesWithController ==
  controllerRef # null =>
    LET eng == engines[controllerRef]
    IN /\ state.status = "paused" <=> eng.isPaused
       /\ state.status = "running" <=> (~eng.isPaused /\ ~eng.isCancelled)

====
